---- MODULE Spec2Model ----
(***************************************************************************)
(* LeftSTAMPi (aeon/anomaly_detection/_left_stampi.py): a detector that    *)
(* validates its parameters, builds an incremental left matrix profile     *)
(* over an initial segment, forwards later points to the profile's update  *)
(* primitive, zeroes the first n_init_train profile entries and reverses   *)
(* the window scores to point scores.                                      *)
(*                                                                         *)
(* Arrays are sequences (1-based: Python's X[i] is X[i+1] here, X[:c] is   *)
(* SubSeq(X, 1, c)).  A method is an operator from the detector (self) and *)
(* its argument to an outcome record: the detector after the call, the     *)
(* exception raised ("none" for a normal return), the returned value and   *)
(* the calls the method made on the engine, in order.                      *)
(*                                                                         *)
(* normalize and p are handed to the engine unchanged and read nowhere     *)
(* else; the engine's metric is fixed below, so they are not fields here.  *)
(***************************************************************************)
EXTENDS Integers, Sequences, FiniteSets

\* ------------------------------------------------------------ bounds
\* Length of the series the calls draw their arrays from.
MaxLen == 7
\* Largest number of points handed to one predict call.
MaxBatch == 2

\* ------------------------------------------------------------ constants
\* _check_params: window_size < 3 is rejected, k < 1 is rejected.
MinWindow == 3
MinK == 1

\* ------------------------------------------------------------ values
\* n_init_train = None (the constructor default).
None == 0 - 1
\* numpy.inf, the engine's distance of a window that has no left neighbour.
Inf == 0 - 2
\* self.mp = None: no profile object.
NoneMP == [T |-> <<>>, left_P |-> <<>>, m |-> 0, k |-> 0]

\* The points of a series: two values, so that windows differ and distances
\* are 0..window_size.
Values == {0, 1}

\* Constructor arguments.  window_size and k: the threshold of _check_params
\* and the value below it.  n_init_train: the default, or the docstring's
\* n_init_train = 3; _fit overwrites it with the length of its array, so
\* fit_predict is reached with every n_init_train in ArgLens.
WindowSizes == {MinWindow - 1, MinWindow}

NInitTrains == {None, MinWindow}

Ks == {MinK - 1, MinK}

\* Lengths of the arrays handed to fit and fit_predict: from shorter than
\* any accepted window up to the whole series.
ArgLens == (MinWindow - 1)..MaxLen

Abs(a) == IF a < 0 THEN 0 - a ELSE a

Max2(a, b) == IF a > b THEN a ELSE b

Min2(a, b) == IF a < b THEN a ELSE b

MinOf(S) == CHOOSE a \in S : \A b \in S : a <= b

RECURSIVE SumSeq(_)
SumSeq(s) == IF s = <<>> THEN 0 ELSE s[1] + SumSeq(Tail(s))

\* ------------------------------------------------------------ engine
\* The incremental matrix-profile engine (stumpy.stumpi, egress=False): per
\* window position the distance to the nearest window to its left, outside
\* the exclusion zone; one entry more after every one-point update.
ExclZone(m) == (m + 3) \div 4

Dist(T, i, j, m) == SumSeq([t \in 1..m |-> Abs(T[i + t - 1] - T[j + t - 1])])

LeftNN(T, j, m) ==
  LET cands == {i \in 1..(j - 1) : j - i > ExclZone(m)}
  IN  IF cands = {} THEN Inf ELSE MinOf({Dist(T, i, j, m) : i \in cands})

\* stumpy.stumpi(T, m=..., egress=False, k=...): the profile over T.
stumpi(T, m, k) ==
  [T |-> T, m |-> m, k |-> k,
   left_P |-> [j \in 1..(Len(T) - m + 1) |-> LeftNN(T, j, m)]]

\* mp.update(t): t is one point (a scalar, or an array of one element).
\* An array of any other size is not a point: the engine raises and the
\* profile stays as it was.
update(mp, t) ==
  IF Len(t) = 1
  THEN LET T2 == mp.T \o t
       IN  [exc |-> "none",
            mp |-> [mp EXCEPT !.T = T2,
                              !.left_P = Append(@, LeftNN(T2, Len(T2) - mp.m + 1, mp.m))]]
  ELSE [exc |-> "EngineError", mp |-> mp]

\* ------------------------------------------------------------ windowing
\* aeon.utils.windowing.reverse_windowing(y, window_size), stride 1, mean
\* reduction: Len(y) + window_size - 1 point scores, each the mean of the
\* scores of the windows that cover the point.  A mean is kept as the pair
\* <<sum, count>>.
reverse_windowing(y, window_size) ==
  [i \in 1..(Len(y) + window_size - 1) |->
     LET lo == Max2(1, i - window_size + 1)
         hi == Min2(i, Len(y))
     IN  <<SumSeq([j \in 1..(hi - lo + 1) |-> y[lo + j - 1]]), hi - lo + 1>>]

\* lmp[:n] = 0
ZeroPrefix(lmp, n) == [j \in 1..Len(lmp) |-> IF j <= n THEN 0 ELSE lmp[j]]

\* ------------------------------------------------------------ detector
Outcome(self, exc, val, calls) ==
  [self |-> self, exc |-> exc, val |-> val, calls |-> calls]

\* LeftSTAMPi.__init__
LeftSTAMPi(window_size, n_init_train, k) ==
  [mp |-> NoneMP, window_size |-> window_size, n_init_train |-> n_init_train,
   k |-> k]

\* _check_params with the lower window bound off by one (window_size < 2).
_check_params_min2(self, n) ==
  IF self.window_size < MinWindow - 1 \/ self.window_size > n THEN "ValueError"
  ELSE IF self.n_init_train = None THEN "TypeError"
  ELSE IF self.window_size > self.n_init_train THEN "ValueError"
  ELSE IF self.k < MinK \/ self.k > n - self.window_size THEN "ValueError"
  ELSE "none"

\* _check_params with k bounded by the series length alone.
_check_params_k_len(self, n) ==
  IF self.window_size < MinWindow \/ self.window_size > n THEN "ValueError"
  ELSE IF self.n_init_train = None THEN "TypeError"
  ELSE IF self.window_size > self.n_init_train THEN "ValueError"
  ELSE IF self.k < MinK \/ self.k > n THEN "ValueError"
  ELSE "none"

\* LeftSTAMPi._check_params(X), n = X.shape[0]: the exception it raises.
\* window_size > None is a TypeError of the comparison itself.
_check_params(self, n) ==
  IF self.window_size < MinWindow \/ self.window_size > n THEN "ValueError"
  ELSE IF self.n_init_train = None THEN "TypeError"
  ELSE IF self.window_size > self.n_init_train THEN "ValueError"
  ELSE IF self.k < MinK \/ self.k > n - self.window_size THEN "ValueError"
  ELSE "none"

\* LeftSTAMPi._call_stumpi(X); installed: whether stumpy can be imported
\* (_check_soft_dependencies raises ModuleNotFoundError when it cannot).
_call_stumpi(self, Xa, installed) ==
  IF installed
  THEN Outcome([self EXCEPT !.mp = stumpi(Xa, self.window_size, self.k)],
               "none", <<>>, <<[fn |-> "stumpi", arg |-> Xa]>>)
  ELSE Outcome(self, "ModuleNotFoundError", <<>>, <<>>)

\* _fit building the profile before it validates.
_fit_build_first(self, Xa, installed) ==
  LET s1 == [self EXCEPT !.n_init_train = Len(Xa)]
      c == _call_stumpi(s1, Xa, installed)
      chk == _check_params(s1, Len(Xa))
  IN  IF chk # "none" THEN Outcome(c.self, chk, <<>>, c.calls) ELSE c

\* LeftSTAMPi._fit(X)
_fit(self, Xa, installed) ==
  LET s1 == [self EXCEPT !.n_init_train = Len(Xa)]
      chk == _check_params(s1, Len(Xa))
  IN  IF chk # "none" THEN Outcome(s1, chk, <<>>, <<>>)
      ELSE _call_stumpi(s1, Xa, installed)

\* _predict zeroing window_size entries instead of n_init_train.
_predict_zero_window(self, Xa) ==
  IF self.mp = NoneMP THEN Outcome(self, "AttributeError", <<>>, <<>>)
  ELSE
  LET u == update(self.mp, Xa)
      calls == <<[fn |-> "update", arg |-> Xa]>>
  IN  IF u.exc # "none" THEN Outcome(self, u.exc, <<>>, calls)
      ELSE
      LET lmp == ZeroPrefix(u.mp.left_P, self.window_size)
      IN  Outcome([self EXCEPT !.mp = [u.mp EXCEPT !.left_P = lmp]], "none",
                  reverse_windowing(lmp, self.window_size), calls)

\* _predict returning only the scores of the points it was handed.
_predict_tail(self, Xa) ==
  IF self.mp = NoneMP THEN Outcome(self, "AttributeError", <<>>, <<>>)
  ELSE
  LET u == update(self.mp, Xa)
      calls == <<[fn |-> "update", arg |-> Xa]>>
  IN  IF u.exc # "none" THEN Outcome(self, u.exc, <<>>, calls)
      ELSE
      LET lmp == ZeroPrefix(u.mp.left_P, self.n_init_train)
          all == reverse_windowing(lmp, self.window_size)
      IN  Outcome([self EXCEPT !.mp = [u.mp EXCEPT !.left_P = lmp]], "none",
                  SubSeq(all, Len(all) - Len(Xa) + 1, Len(all)), calls)

\* LeftSTAMPi._predict(X)
_predict(self, Xa) ==
  IF self.mp = NoneMP THEN Outcome(self, "AttributeError", <<>>, <<>>)
  ELSE
  LET u == update(self.mp, Xa)
      calls == <<[fn |-> "update", arg |-> Xa]>>
  IN  IF u.exc # "none" THEN Outcome(self, u.exc, <<>>, calls)
      ELSE
      LET lmp == ZeroPrefix(u.mp.left_P, self.n_init_train)
      IN  Outcome([self EXCEPT !.mp = [u.mp EXCEPT !.left_P = lmp]], "none",
                  reverse_windowing(lmp, self.window_size), calls)

\* for x in X[n_init_train:]: self.mp.update(x)
RECURSIVE UpdateLoop(_, _)
UpdateLoop(mp, rest) ==
  IF rest = <<>> THEN mp
  ELSE UpdateLoop(update(mp, <<Head(rest)>>).mp, Tail(rest))

\* _fit_predict whose update loop starts one point late (X[n_init_train + 1:]).
_fit_predict_skip_first(self, Xa, installed) ==
  LET chk == _check_params(self, Len(Xa))
  IN  IF chk # "none" THEN Outcome(self, chk, <<>>, <<>>)
      ELSE
      LET n0 == Min2(self.n_init_train, Len(Xa))
          c == _call_stumpi(self, SubSeq(Xa, 1, n0), installed)
      IN  IF c.exc # "none" THEN c
          ELSE
          LET rest == SubSeq(Xa, n0 + 2, Len(Xa))
              mp2 == UpdateLoop(c.self.mp, rest)
              lmp == ZeroPrefix(mp2.left_P, self.n_init_train)
          IN  Outcome([self EXCEPT !.mp = [mp2 EXCEPT !.left_P = lmp]], "none",
                      reverse_windowing(lmp, self.window_size),
                      c.calls \o [i \in 1..Len(rest) |->
                                    [fn |-> "update", arg |-> <<rest[i]>>]])

\* _fit_predict zeroing only the entries of the initial profile
\* (lmp[: n_init_train - window_size + 1]).
_fit_predict_zero_initial(self, Xa, installed) ==
  LET chk == _check_params(self, Len(Xa))
  IN  IF chk # "none" THEN Outcome(self, chk, <<>>, <<>>)
      ELSE
      LET n0 == Min2(self.n_init_train, Len(Xa))
          c == _call_stumpi(self, SubSeq(Xa, 1, n0), installed)
      IN  IF c.exc # "none" THEN c
          ELSE
          LET rest == SubSeq(Xa, n0 + 1, Len(Xa))
              mp2 == UpdateLoop(c.self.mp, rest)
              lmp == ZeroPrefix(mp2.left_P, self.n_init_train - self.window_size + 1)
          IN  Outcome([self EXCEPT !.mp = [mp2 EXCEPT !.left_P = lmp]], "none",
                      reverse_windowing(lmp, self.window_size),
                      c.calls \o [i \in 1..Len(rest) |->
                                    [fn |-> "update", arg |-> <<rest[i]>>]])

\* LeftSTAMPi._fit_predict(X)
_fit_predict(self, Xa, installed) ==
  LET chk == _check_params(self, Len(Xa))
  IN  IF chk # "none" THEN Outcome(self, chk, <<>>, <<>>)
      ELSE
      LET n0 == Min2(self.n_init_train, Len(Xa))
          c == _call_stumpi(self, SubSeq(Xa, 1, n0), installed)
      IN  IF c.exc # "none" THEN c
          ELSE
          LET rest == SubSeq(Xa, n0 + 1, Len(Xa))
              mp2 == UpdateLoop(c.self.mp, rest)
              lmp == ZeroPrefix(mp2.left_P, self.n_init_train)
          IN  Outcome([self EXCEPT !.mp = [mp2 EXCEPT !.left_P = lmp]], "none",
                      reverse_windowing(lmp, self.window_size),
                      c.calls \o [i \in 1..Len(rest) |->
                                    [fn |-> "update", arg |-> <<rest[i]>>]])

\* ------------------------------------------------------------ state
VARIABLES
  X,       \* the series the calls take their arrays from
  self,    \* the detector
  ret,     \* the last call: method, argument length, exception, value
  calls,   \* the engine calls the last call made, in order
  origin,  \* the method that built the current profile
  trained, \* length of the segment the current profile was constructed over
  stumpy_installed,  \* whether the soft dependency can be imported
  seen     \* points handed to the current profile: training segment + predicts

vars == <<X, self, ret, calls, origin, trained, seen, stumpy_installed>>

\* The series a run draws its arrays from.  A detector that no array can take
\* past _check_params and the import (window_size < 3, k < 1, or stumpy
\* missing) reads nothing of an array but its length: one series stands for
\* all of them there.  Exchanging the two values of a series changes no
\* difference between points, hence no distance: the first point is 0.
Series(w, k, installed) ==
  IF w >= MinWindow /\ k >= MinK /\ installed
  THEN {s \in [1..MaxLen -> Values] : s[1] = 0}
  ELSE {[i \in 1..MaxLen |-> 0]}

Init ==
  /\ stumpy_installed \in BOOLEAN
  /\ \E w \in WindowSizes, n0 \in NInitTrains, k \in Ks :
       /\ self = LeftSTAMPi(w, n0, k)
       /\ X \in Series(w, k, stumpy_installed)
  /\ ret = [op |-> "init", len |-> 0, exc |-> "none", val |-> <<>>]
  /\ calls = <<>>
  /\ origin = "none"
  /\ trained = 0
  /\ seen = 0

Return(op, len, o) ==
  /\ self' = o.self
  /\ ret' = [op |-> op, len |-> len, exc |-> o.exc, val |-> o.val]
  /\ calls' = o.calls

\* detector.fit(X[:c])
Fit(c) ==
  \E o \in {_fit(self, SubSeq(X, 1, c), stumpy_installed)} :
      /\ Return("fit", c, o)
      /\ origin' = IF o.exc = "none" THEN "fit" ELSE origin
      /\ trained' = IF o.exc = "none" THEN c ELSE trained
      /\ seen' = IF o.exc = "none" THEN c ELSE seen
      /\ UNCHANGED <<X, stumpy_installed>>

\* detector.fit_predict(X[:c])
FitPredict(c) ==
  \E o \in {_fit_predict(self, SubSeq(X, 1, c), stumpy_installed)} :
      /\ Return("fit_predict", c, o)
      /\ origin' = IF o.exc = "none" THEN "fit_predict" ELSE origin
      /\ trained' = IF o.exc = "none" THEN Len(o.calls[1].arg) ELSE trained
      /\ seen' = IF o.exc = "none" THEN c ELSE seen
      /\ UNCHANGED <<X, stumpy_installed>>

\* detector.predict(X[seen : seen + L]): the next L points of the series
Predict(L) ==
  /\ seen + L <= MaxLen
  /\ \E o \in {_predict(self, SubSeq(X, seen + 1, seen + L))} :
         /\ Return("predict", L, o)
         /\ seen' = IF o.exc = "none" THEN seen + L ELSE seen
  /\ UNCHANGED <<X, origin, trained, stumpy_installed>>

Next ==
  \/ \E c \in ArgLens : Fit(c)
  \/ \E c \in ArgLens : FitPredict(c)
  \/ \E L \in 1..MaxBatch : Predict(L)

Spec == Init /\ [][Next]_vars

\* ------------------------------------------------------------ properties
Returned == ret.exc = "none"

Fitting == ret.op \in {"fit", "fit_predict"}

IsZero(score) == score[1] = 0

\* C1: batch and streaming agree.  A detector fit on X[:n0] (fit sets
\* n_init_train = n0, and no later call has changed it) and handed the
\* following points one predict at a time returns, at every point, the array
\* fit_predict returns on the series so far from a detector constructed with
\* n_init_train = n0 and the same window_size and k, whenever that
\* fit_predict accepts its arguments.
BatchStreamAgree ==
  (/\ origin = "fit" /\ self.n_init_train = trained
   /\ ret.op = "predict" /\ Returned) =>
    LET batch == _fit_predict(
                   LeftSTAMPi(self.window_size, trained, self.k),
                   SubSeq(X, 1, seen), stumpy_installed)
    IN  batch.exc = "none" => batch.val = ret.val

\* A stream of at least two predicts after fit, with a non-zero score.
BatchStreamAgreeWitness ==
  /\ origin = "fit" /\ ret.op = "predict" /\ Returned
  /\ self.n_init_train = trained /\ seen >= trained + 2
  /\ _fit_predict(LeftSTAMPi(self.window_size, trained, self.k),
                  SubSeq(X, 1, seen), stumpy_installed).exc = "none"
  /\ \E i \in 1..Len(ret.val) : ~IsZero(ret.val[i])

\* C2: with parameters validation accepts (3 <= window_size <= n,
\* window_size <= n_init_train, 1 <= k <= n - window_size) fit_predict on n
\* points returns n scores, from a profile of n - window_size + 1 entries.
FitPredictLength ==
  (/\ ret.op = "fit_predict" /\ stumpy_installed
   /\ self.n_init_train # None
   /\ MinWindow <= self.window_size /\ self.window_size <= ret.len
   /\ self.window_size <= self.n_init_train
   /\ MinK <= self.k /\ self.k <= ret.len - self.window_size) =>
    /\ Returned
    /\ Len(self.mp.left_P) = ret.len - self.window_size + 1
    /\ Len(ret.val) = ret.len

\* fit_predict returned on the whole series, part of it handed to update.
FitPredictLengthWitness ==
  /\ ret.op = "fit_predict" /\ Returned /\ ret.len = MaxLen
  /\ self.n_init_train + 2 <= ret.len
  /\ Len(ret.val) = MaxLen

\* C3: in every array fit_predict or predict returns, the scores of the
\* points 0 .. n_init_train - 1 (as far as they exist) are 0.
InitScoresZero ==
  (ret.op \in {"fit_predict", "predict"} /\ Returned) =>
    \A i \in 1..Min2(self.n_init_train, Len(ret.val)) : IsZero(ret.val[i])

\* A returned array that is zero up to n_init_train and non-zero right after.
InitScoresZeroWitness ==
  /\ ret.op \in {"fit_predict", "predict"} /\ Returned
  /\ self.n_init_train >= MinWindow
  /\ Len(ret.val) > self.n_init_train
  /\ IsZero(ret.val[self.n_init_train])
  /\ ~IsZero(ret.val[self.n_init_train + 1])

\* C4: fit and fit_predict with window_size < 3 or window_size > len(X)
\* raise ValueError, whatever n_init_train and k, and construct no profile.
BadWindowRejected ==
  (Fitting /\ (self.window_size < 3 \/ self.window_size > ret.len)) =>
    (ret.exc = "ValueError" /\ calls = <<>>)

\* A window longer than the array, on a detector whose n_init_train is None.
BadWindowRejectedWitness ==
  /\ ret.op = "fit_predict" /\ self.n_init_train = None
  /\ self.window_size >= 3 /\ self.window_size > ret.len
  /\ ret.exc = "ValueError"

OnlyValidationErrors ==
  (Fitting /\ ~Returned) => ret.exc \in {"ValueError", "ModuleNotFoundError"}

\* C7 (as claimed): fit on a training segment exactly as long as the window,
\* with the default k = 1, is accepted and builds the profile.
FitAtWindowLengthAccepted ==
  (/\ ret.op = "fit" /\ stumpy_installed
   /\ self.window_size >= 3 /\ ret.len = self.window_size /\ self.k = 1) =>
    (Returned /\ self.mp # NoneMP)

\* C8 (as claimed): fit_predict makes one construction and then one
\* one-point update per point of X[n_init_train:], in order; predict on L
\* points makes L one-point updates.
OneUpdatePerPoint ==
  /\ (ret.op = "fit_predict" /\ Returned) =>
       LET n0 == Min2(self.n_init_train, ret.len)
       IN  calls = <<[fn |-> "stumpi", arg |-> SubSeq(X, 1, n0)]>> \o
                   [i \in 1..(ret.len - n0) |->
                      [fn |-> "update", arg |-> <<X[n0 + i]>>]]
  /\ (ret.op = "predict" /\ ret.exc # "AttributeError") =>
       /\ Len(calls) = ret.len
       /\ \A i \in 1..Len(calls) :
            calls[i].fn = "update" /\ Len(calls[i].arg) = 1

\* C9 (as claimed): predict returns as many scores as it was handed points.
PredictLengthIsInputLength ==
  (ret.op = "predict" /\ Returned) => Len(ret.val) = ret.len

\* C9 (amended): predict, called with one new point, returns one score per
\* point the profile has been given so far: the array fit or fit_predict
\* was called on and every point handed to predict since, the one of this
\* call included.
PredictLengthIsSeriesLength ==
  (ret.op = "predict" /\ ret.len = 1 /\ Returned) => Len(ret.val) = seen

\* The second predict after a fit: more scores than points handed in.
PredictLengthWitness ==
  /\ origin = "fit" /\ ret.op = "predict" /\ Returned
  /\ self.n_init_train = trained /\ seen = trained + 2
  /\ Len(ret.val) > ret.len

\* C10: a fit or fit_predict that validation rejects leaves mp as it was
\* and makes no engine call.
RejectedKeepsProfile ==
  [][(ret'.op \in {"fit", "fit_predict"} /\ ret'.exc \in {"ValueError", "TypeError"})
       => (self'.mp = self.mp /\ calls' = <<>>)]_vars

\* A rejected call on a detector that holds an earlier profile.
RejectedKeepsProfileWitness ==
  /\ Fitting /\ ret.exc = "ValueError"
  /\ self.mp # NoneMP /\ calls = <<>>

====
